---- MODULE Spec2Model ----
(***************************************************************************)
(* Model of phy/gui/gui.py: the docking main window GUI, its dock widgets  *)
(* and the persisted GUIState.                                             *)
(*                                                                         *)
(* The window is one object.  Views are opaque objects with a class; dock  *)
(* widgets are created by add_view and numbered in creation order.  The    *)
(* event system (connect / emit) is a list of callbacks run synchronously  *)
(* in subscription order.                                                  *)
(*                                                                         *)
(* Every operation is one action.  trace holds the statements the most     *)
(* recent operation executed, in order, so that the order of emissions,    *)
(* listener calls and saves can be stated; handed, removed, n_close_view,  *)
(* vetoed and n_saves are history variables.                               *)
(*                                                                         *)
(* SpecViews explores add_view and the closing of dock widgets, SpecEvents *)
(* the same with listeners of the application, SpecCreate the same with    *)
(* create_views, SpecWindow the showing and closing of the window,         *)
(* SpecLifecycle views added to a window that is shown and closed,         *)
(* SpecStatus the status bar and SpecState the state object.               *)
(***************************************************************************)
EXTENDS Integers, Sequences, FiniteSets, TLC

\* ------------------------------------------------------------------------
\* Bounds
\* ------------------------------------------------------------------------

\* Number of dock widgets add_view creates, without application listeners.
MaxDocks == 4
\* Number of dock widgets add_view creates, with application listeners.
MaxEventDocks == 2
\* Number of listeners subscribed by the application.
MaxListeners == 2
\* Number of dock widgets add_view creates, with create_views.
MaxCreateDocks == 3

\* ------------------------------------------------------------------------
\* Inputs
\* ------------------------------------------------------------------------

\* View objects and their classes (view.__class__).
Views == {"a1", "a2", "a3", "b1"}
Classes == {"ClsA", "ClsB"}
ClassOf == [v \in Views |-> IF v = "b1" THEN "ClsB" ELSE "ClsA"]
\* cls.__name__ ; the classes of the model have distinct names.
ClassName == [c \in Classes |-> IF c = "ClsA" THEN "A" ELSE "B"]

\* View objects are taken in use in a fixed order within their class: a
\* view that was never added is added only after the ones before it.
Before == [v \in Views |-> IF v = "a2" THEN {"a1"}
                           ELSE IF v = "a3" THEN {"a1", "a2"} ELSE {}]

\* Values a 'close' listener can return.
RetVals == {"True", "False", "None", "0", "[]"}
\* Python: x == False
PyEqFalse(x) == x \in {"False", "0"}
\* Python: not x
PyFalsy(x) == x \in {"False", "None", "0", "[]"}

\* Opaque geometry blobs produced by the toolkit (saveGeometry/saveState).
Blobs == {1, 2}
\* The sender of window-level events; dock widgets are senders 1, 2, ...
GUI == 0
\* A view that was never given a dock widget.
NoDock == 0
\* A view that was never named.
NoName == <<>>
\* The events application listeners subscribe to.
UserEvents == {"close", "close_view", "close_dock_widget", "add_view", "show"}

\* Python values given as status message: strings and a number.
PyStr(s) == [t |-> "str", s |-> s, n |-> 0]
PyInt(n) == [t |-> "int", s |-> "", n |-> n]
StatusValues ==
    {PyStr(""), PyStr(":hello world!"), PyStr("hello"), PyStr("bonjour"),
     PyStr("5"), PyInt(5), PyInt(0)}
\* str(value)
str(value) == IF value.t = "str" THEN value.s
              ELSE [n \in {0, 5} |-> IF n = 0 THEN "0" ELSE "5"][value.n]

VARIABLES
    _views,               \* GUI._views: list of tracked views
    _view_class_indices,  \* GUI._view_class_indices: {view_cls: next index}
    _closed,              \* GUI._closed
    name,                 \* view.name of every view object
    dock_widget,          \* view.dock_widget of every view object
    docks,                \* the DockWidget objects, in creation order
    callbacks,            \* the connect() registry, in subscription order
    state,                \* GUI.state (GUIState, a dictionary)
    disk,                 \* the file state.json
    qt,                   \* the toolkit's window: geometry, dock state, visible
    trace,                \* what the most recent operation did, in order
    handed,               \* history: the (name, view) pairs add_view made
    removed,              \* history: some view was removed from the list
    n_close_view,         \* history: number of 'close_view' events per view
    vetoed,               \* history: some close request was vetoed
    n_saves,              \* history: number of saves made by closeEvent
    _lock_status,         \* GUI._lock_status
    _status_bar           \* GUI._status_bar: the message the status bar shows

vars == <<_views, _view_class_indices, _closed, name, dock_widget, docks,
          callbacks, state, disk, qt, trace, handed, removed, n_close_view,
          vetoed, n_saves,
          _lock_status, _status_bar>>

\* ------------------------------------------------------------------------
\* Helpers
\* ------------------------------------------------------------------------

\* One step of an operation, as recorded in trace.
Entry(op, ev, sender, view, cb, ret) ==
    [op |-> op, ev |-> ev, sender |-> sender, view |-> view, cb |-> cb,
     ret |-> ret]

Step(op) == Entry(op, "", GUI, "", 0, "")

\* x in list
In(x, s) == \E i \in 1..Len(s) : s[i] = x

\* Variant of remove: list.pop(), drops the last element.
remove_last(s, x) == SubSeq(s, 1, Len(s) - 1)

\* list.remove(x) on a list that holds x: drops the first occurrence.
remove(s, x) ==
    LET i == CHOOSE j \in 1..Len(s) :
                 s[j] = x /\ \A k \in 1..(j - 1) : s[k] # x
    IN  [k \in 1..(Len(s) - 1) |-> IF k < i THEN s[k] ELSE s[k + 1]]

\* dict without the given keys
Without(d, keys) == [k \in (DOMAIN d) \ keys |-> d[k]]

\* d[key] = value
SetItem(d, key, value) ==
    [k \in (DOMAIN d) \cup {key} |-> IF k = key THEN value ELSE d[k]]

\* ------------------------------------------------------------------------
\* GUI: views
\* ------------------------------------------------------------------------

\* GUI.list_views(cls)
list_views(vs, cls) == SelectSeq(vs, LAMBDA v : ClassOf[v] = cls)

\* What a method returns when it returns nothing.
None == "None"

\* What the application passes to list_views and get_view: a view class,
\* or, as test_gui_1 does, the name of one (a string); "C" names no class.
Queries == Classes \cup {"A", "B", "C"}

\* GUI.get_view(cls, index), index >= 0
get_view(vs, cls, index) ==
    LET views == list_views(vs, cls)
    IN  IF index <= Len(views) - 1 THEN views[index + 1] ELSE None

\* Variant of Increment: vc[cls] = 1.
Increment_set(vc, cls) ==
    [c \in (DOMAIN vc) \cup {cls} |-> IF c = cls THEN 1 ELSE vc[c]]

\* vc[cls] += 1 on a defaultdict(int)
Increment(vc, cls) ==
    [c \in (DOMAIN vc) \cup {cls} |->
        IF c = cls THEN (IF c \in DOMAIN vc THEN vc[c] ELSE 0) + 1 ELSE vc[c]]

\* GUI.view_count: the loop over self.views, from the first i views
RECURSIVE view_count_loop(_, _)
view_count_loop(vs, i) ==
    IF i = 0 THEN <<>>
    ELSE Increment(view_count_loop(vs, i - 1), ClassOf[vs[i]])

\* GUI.view_count
view_count(vs) == view_count_loop(vs, Len(vs))

\* '%s (%d)' % (basename, index) and the bare basename
Format(basename, index) == <<basename, index>>
Bare(basename) == <<basename>>

\* Variant of _set_view_name: the index is the number of tracked views of
\* the class.
_set_view_name_count(vs, indices, view) ==
    LET cls == ClassOf[view]
        views == list_views(vs, cls)
    IN  IF views = <<>> THEN Bare(ClassName[cls])
        ELSE Format(ClassName[cls], Len(views))

\* Variant of _set_view_name: every view gets the bare class name.
_set_view_name_bare(vs, indices, view) == Bare(ClassName[ClassOf[view]])

\* Variant of _set_view_name: the index is one more than the next index.
_set_view_name_next(vs, indices, view) ==
    LET cls == ClassOf[view]
        views == list_views(vs, cls)
    IN  IF views = <<>> THEN Bare(ClassName[cls])
        ELSE Format(ClassName[cls], indices[cls] + 1)

\* GUI._set_view_name(view), for a view that is not tracked
_set_view_name(vs, indices, view) ==
    LET cls == ClassOf[view]
        basename == ClassName[cls]
        views == list_views(vs, cls)
    IN  IF views = <<>> THEN Bare(basename)
        ELSE Format(basename, indices[cls])

\* ------------------------------------------------------------------------
\* GUIState
\* ------------------------------------------------------------------------

\* The JSON text of a value.  The encoder writes the toolkit's byte arrays
\* (the two values of the geometry state) as base64 strings under a marker
\* key; the settings of a view are strings and are written as they are.
b64encode(blob) == <<"__qbytearray__", blob>>
b64decode(text) == text[2]

json_dumps(key, value) ==
    IF key = "geometry_state"
    THEN [f \in DOMAIN value |-> b64encode(value[f])]
    ELSE value

json_loads(key, text) ==
    IF key = "geometry_state"
    THEN [f \in DOMAIN text |-> b64decode(text[f])]
    ELSE text

\* _save_json(path, data): the content of the file
_save_json(data) == [k \in DOMAIN data |-> json_dumps(k, data[k])]

\* _load_json(path): the dictionary the file holds
_load_json(text) == [k \in DOMAIN text |-> json_loads(k, text[k])]

\* Variant of save: every key is written.
save_all(st) == [exists |-> TRUE, data |-> _save_json(st)]

\* GUIState.save(): the file state.json after the call
save(st) ==
    [exists |-> TRUE, data |-> _save_json(Without(st, {"config_dir", "name"}))]

\* Bunch.update(other)
update(d, other) ==
    [k \in (DOMAIN d) \cup (DOMAIN other) |->
        IF k \in DOMAIN other THEN other[k] ELSE d[k]]

\* GUIState.load(): the dictionary after reading state.json
load(st, file) ==
    IF ~file.exists THEN st
    ELSE update(st, _load_json(file.data))

\* GUIState.__init__
GUIState_init(file) ==
    load([k \in {"name", "config_dir"} |->
             IF k = "name" THEN "GUI" ELSE "tempdir"], file)

\* Display names of views whose settings are kept in the state object, and
\* the settings given to update_view_state.
ViewNames == {"MyView", "MyView0", "MyView1"}
Settings ==
    {<<>>,
     [k \in {"hello"} |-> "world"],
     [k \in {"hello", "x"} |-> IF k = "hello" THEN "there" ELSE "1"]}
\* Pairs (p, n) of display names where p is a proper prefix of n.
Prefix == {<<"MyView", "MyView0">>, <<"MyView", "MyView1">>}
\* Bunch()
Bunch == <<>>

\* Variant of get_view_state: self.setdefault(view.name, Bunch())
get_view_state_setdefault(st, nm) ==
    [ret |-> IF nm \in DOMAIN st THEN st[nm] ELSE Bunch,
     state |-> IF nm \in DOMAIN st THEN st ELSE SetItem(st, nm, Bunch)]

\* GUIState.get_view_state(view, gui), view.name = nm: what is returned,
\* and the state object after the call
get_view_state(st, nm) ==
    [ret |-> IF nm \in DOMAIN st THEN st[nm] ELSE Bunch,
     state |-> st]

\* Variant of update_view_state: the entries of the names that start with
\* the name, or that the name starts with, are updated too.
update_view_state_prefix(st, nm, settings) ==
    LET st1 == IF nm \notin DOMAIN st THEN SetItem(st, nm, Bunch) ELSE st
    IN  [m \in DOMAIN st1 |->
            IF m = nm \/ <<m, nm>> \in Prefix \/ <<nm, m>> \in Prefix
            THEN update(st1[m], settings) ELSE st1[m]]

\* GUIState.update_view_state(view, state, gui), view.name = nm
update_view_state(st, nm, settings) ==
    LET st1 == IF nm \notin DOMAIN st THEN SetItem(st, nm, Bunch) ELSE st
    IN  [st1 EXCEPT ![nm] = update(@, settings)]

\* GUI.save_geometry_state()
save_geometry_state(q) == [geometry |-> q.geometry, state |-> q.state]

\* state.get('geometry_state', None); 0 stands for None
get_geometry_state(st) ==
    IF "geometry_state" \in DOMAIN st THEN st["geometry_state"]
    ELSE [geometry |-> 0, state |-> 0]

\* GUI.restore_geometry_state(gs)
restore_geometry_state(q, gs) ==
    [q EXCEPT !.geometry = IF gs.geometry # 0 THEN gs.geometry ELSE @,
              !.state = IF gs.state # 0 THEN gs.state ELSE @]

\* ------------------------------------------------------------------------
\* Events: connect / emit
\* ------------------------------------------------------------------------

\* A registered callback.  fn is the function: the window's own on_show,
\* the on_close_dock_widget closure of add_view (bound to view), or a
\* listener of the application ("user").
Callback(event, sender, fn, view) ==
    [event |-> event, sender |-> sender, fn |-> fn, view |-> view]

\* connect(f, sender=sender): subscribe after the existing callbacks.
connect(cbs, cb) == Append(cbs, cb)

\* The state a running handler works on.
Running(vs, q, tr) ==
    [views |-> vs, qt |-> q, trace |-> tr, raised |-> FALSE, res |-> <<>>]

RECURSIVE emit_from(_, _, _, _, _, _, _)

\* emit(event, sender, *args): run the matching callbacks in subscription
\* order and collect what they return.  rets gives what the application's
\* listeners return in this emission.
emit(cbs, event, sender, view, rets, st) ==
    emit_from(1, cbs, event, sender, view, rets,
              [st EXCEPT !.trace = Append(@, Entry("emit", event, sender, view, 0, "")),
                         !.res = <<>>])

\* Variant of on_close_dock_widget: the view is removed, 'close_view' is
\* not emitted.
on_close_dock_widget_silent(cbs, view, st) ==
    IF ~In(view, st.views)
    THEN [st EXCEPT !.raised = TRUE, !.trace = Append(@, Step("ValueError"))]
    ELSE [st EXCEPT !.views = remove(@, view),
                    !.trace = Append(@, Entry("remove", "", GUI, view, 0, ""))]

\* The closure on_close_dock_widget(sender) of add_view, bound to view.
on_close_dock_widget(cbs, view, st) ==
    IF ~In(view, st.views)
    THEN \* list.remove raises ValueError
         [st EXCEPT !.raised = TRUE, !.trace = Append(@, Step("ValueError"))]
    ELSE LET st1 == [st EXCEPT !.views = remove(@, view),
                               !.trace = Append(@, Entry("remove", "", GUI, view, 0, ""))]
             st2 == emit(cbs, "close_view", GUI, view, <<>>, st1)
         IN  [st2 EXCEPT !.res = st.res]

\* The listener on_show(sender) of GUI.__init__.
on_show(st) ==
    [st EXCEPT !.qt = restore_geometry_state(@, get_geometry_state(state)),
               !.trace = Append(@, Step("restore_geometry_state"))]

\* Run the callback cbs[i].
Call(i, cbs, view, rets, st) ==
    LET cb == cbs[i]
        r == IF i \in DOMAIN rets THEN rets[i] ELSE "None"
        st1 == IF cb.fn = "on_close_dock_widget"
                   THEN on_close_dock_widget(cbs, cb.view, st)
               ELSE IF cb.fn = "on_show" THEN on_show(st)
               ELSE [st EXCEPT !.trace =
                        Append(@, Entry("call", cb.event, cb.sender, view, i, r))]
    IN  IF st1.raised THEN st1 ELSE [st1 EXCEPT !.res = Append(@, r)]

emit_from(i, cbs, event, sender, view, rets, st) ==
    IF i > Len(cbs) \/ st.raised THEN st
    ELSE IF cbs[i].event = event /\ cbs[i].sender = sender
         THEN emit_from(i + 1, cbs, event, sender, view, rets,
                        Call(i, cbs, view, rets, st))
         ELSE emit_from(i + 1, cbs, event, sender, view, rets, st)

\* The application's listeners, by position in the registry.
UserListeners(cbs) == {i \in 1..Len(cbs) : cbs[i].fn = "user"}
CloseListeners(cbs) == {i \in UserListeners(cbs) : cbs[i].event = "close"}

\* Variant of FalseIn: some result is the object False (x is False).
FalseIn_is(res) == \E i \in 1..Len(res) : res[i] = "False"

\* Variant of FalseIn: the results are not looked at.
FalseIn_never(res) == FALSE

\* False in res
FalseIn(res) == \E i \in 1..Len(res) : PyEqFalse(res[i])

\* ------------------------------------------------------------------------
\* Initial state: GUI.__init__
\* ------------------------------------------------------------------------

NoFile == [exists |-> FALSE, data |-> <<>>]
OldFile ==
    save([k \in {"geometry_state"} |-> [geometry |-> 2, state |-> 2]])

Init ==
    /\ _views = <<>>
    /\ _view_class_indices = [c \in Classes |-> 0]
    /\ _closed = FALSE
    /\ name = [v \in Views |-> NoName]
    /\ dock_widget = [v \in Views |-> NoDock]
    /\ docks = <<>>
    /\ callbacks = <<Callback("show", GUI, "on_show", "")>>
    /\ disk \in {NoFile, OldFile}
    /\ state = GUIState_init(disk)
    /\ qt = [geometry |-> 1, state |-> 1, visible |-> FALSE]
    /\ trace = <<>>
    /\ handed = {}
    /\ removed = FALSE
    /\ n_close_view = [v \in Views |-> 0]
    /\ vetoed = FALSE
    /\ n_saves = 0
    /\ _lock_status = FALSE
    /\ _status_bar = ""

\* ------------------------------------------------------------------------
\* Operations
\* ------------------------------------------------------------------------

\* The application can pass view to add_view: a tracked view at any time,
\* another one while fewer than max dock widgets exist.
CanAdd(view, max) ==
    \/ In(view, _views)
    \/ /\ Len(docks) < max
       /\ \A w \in Before[view] : \E i \in 1..Len(docks) : docks[i].view = w

\* The objects add_view reads and writes, and the steps done so far.
Window ==
    [views |-> _views, indices |-> _view_class_indices, name |-> name,
     dock_widget |-> dock_widget, docks |-> docks, callbacks |-> callbacks,
     qt |-> qt, handed |-> handed, trace |-> <<>>, raised |-> FALSE]

\* Variant of assert_not_tracked: the assertion is not made.
assert_not_tracked_off(vs, view) == TRUE

\* assert view not in self._views, the first statement of _set_view_name
assert_not_tracked(vs, view) == ~In(view, vs)

\* The body of GUI.add_view(view), run on window w.
add_view_in(w, view) ==
    IF ~assert_not_tracked(w.views, view)
    THEN \* AssertionError: nothing was done yet
         [w EXCEPT !.raised = TRUE,
                   !.trace = Append(@, Step("AssertionError"))]
    ELSE LET nm == _set_view_name(w.views, w.indices, view)
             d == Len(w.docks) + 1
             cbs == connect(w.callbacks,
                            Callback("close_dock_widget", d,
                                     "on_close_dock_widget", view))
             st == emit(cbs, "add_view", GUI, view, <<>>,
                        Running(Append(w.views, view), w.qt,
                                Append(w.trace,
                                       Entry("_create_dock_widget", "", d, view, 0, ""))))
         IN  [w EXCEPT !.name = [@ EXCEPT ![view] = nm],
                       !.views = st.views,
                       !.indices = [@ EXCEPT ![ClassOf[view]] = @ + 1],
                       !.docks = Append(@, [view |-> view, name |-> nm,
                                            visible |-> TRUE]),
                       !.dock_widget = [@ EXCEPT ![view] = d],
                       !.callbacks = cbs,
                       !.qt = st.qt,
                       !.trace = st.trace,
                       !.handed = @ \cup {<<nm, view>>}]

\* The window after the operation: w.
Becomes(w) ==
    /\ _views' = w.views
    /\ _view_class_indices' = w.indices
    /\ name' = w.name
    /\ dock_widget' = w.dock_widget
    /\ docks' = w.docks
    /\ callbacks' = w.callbacks
    /\ qt' = w.qt
    /\ handed' = w.handed
    /\ trace' = w.trace

\* GUI.add_view(view)
add_view(view) ==
    /\ Becomes(add_view_in(Window, view))
    /\ UNCHANGED <<_closed, state, disk, removed, n_close_view, vetoed, n_saves,
                   _lock_status, _status_bar>>

\* GUI.view_creator: the classes that have a creation function.  Views of
\* the other class are made by the application and passed to add_view.
view_creator == {"ClsA"}

\* The numbers of views asked for in the view_count given to create_views.
Counts == {-1, 0, 1, 2}

\* fn(): the creation function of cls returns a view object not seen before.
Fresh(w, cls) ==
    {v \in Views : /\ ClassOf[v] = cls
                   /\ \A d \in 1..Len(w.docks) : w.docks[d].view # v}

fn(w, cls) ==
    CHOOSE v \in Fresh(w, cls) :
        \A u \in Before[v] : \E d \in 1..Len(w.docks) : w.docks[d].view = u

\* GUI._create_and_add_view(view_cls), for views without an attach method:
\* the window after the call, and the view returned
_create_and_add_view(w, cls) ==
    IF cls \notin view_creator
    THEN [w |-> w, view |-> None]
    ELSE LET view == fn(w, cls)
         IN  [w |-> add_view_in(w, view), view |-> view]

\* GUI.create_views: for i in range(k): self._create_and_add_view(view_cls)
RECURSIVE extra_views(_, _, _)
extra_views(w, cls, k) ==
    IF k <= 0 THEN w
    ELSE extra_views(_create_and_add_view(w, cls).w, cls, k - 1)

\* GUI.create_views: the body of the loop for the item (cls, n) of
\* view_count; actions tells whether the views the creation function makes
\* have an 'actions' attribute that is true.
create_views_item(w, cls, n, actions) ==
    IF n <= 0 THEN w
    ELSE LET first == _create_and_add_view(w, cls)
         IN  IF first.view = None \/ ~actions
             THEN \* if not actions: continue
                  first.w
             ELSE extra_views(
                      [first.w EXCEPT !.trace =
                          @ \o <<Step("actions.separator"), Step("actions.add")>>],
                      cls, n - 1)

\* The application can call create_views({cls: n}): the creation function
\* can make n more views.
CanCreate(cls, n, max) ==
    cls \in view_creator =>
        /\ Cardinality(Fresh(Window, cls)) >= n
        /\ Len(docks) + n <= max

\* GUI.create_views({cls: n})
create_views(cls, n, actions) ==
    LET start == [Window EXCEPT !.trace =
                     <<Entry("create_views", cls, GUI, "", n,
                             IF actions THEN "actions" ELSE "")>>]
    IN  /\ Becomes(create_views_item(start, cls, n, actions))
        /\ UNCHANGED <<_closed, state, disk, removed, n_close_view, vetoed, n_saves,
                       _lock_status, _status_bar>>

\* DockWidget.closeEvent(e) of dock widget d
DockWidget_closeEvent(d) ==
    LET st == emit(callbacks, "close_dock_widget", d, "", <<>>,
                   Running(_views, qt, <<>>))
    IN  /\ _views' = st.views
        /\ qt' = st.qt
        /\ IF st.raised
           THEN /\ trace' = st.trace
                /\ docks' = docks
           ELSE \* super(DockWidget, self).closeEvent(e): the dock is hidden
                /\ trace' = Append(st.trace, Step("QDockWidget.closeEvent"))
                /\ docks' = [docks EXCEPT ![d].visible = FALSE]
        /\ removed' = (removed \/ st.views # _views)
        /\ n_close_view' =
               [v \in Views |-> n_close_view[v] + Cardinality(
                   {i \in 1..Len(trace') :
                       /\ trace'[i].op = "emit"
                       /\ trace'[i].ev = "close_view"
                       /\ trace'[i].view = v})]
        /\ UNCHANGED <<_view_class_indices, _closed, name, dock_widget,
                       callbacks, state, disk, handed, vetoed, n_saves,
                   _lock_status, _status_bar>>

\* Variant of accept_and_save: the state is saved before the geometry is
\* stored in it.
accept_and_save_early(s, q) ==
    LET gs == save_geometry_state(q)
        s1 == SetItem(s, "geometry_state", gs)
    IN  [closed |-> TRUE,
         state |-> s1,
         disk |-> save(s),
         steps |-> << Step("QMainWindow.closeEvent"),
                      Step("_closed = True"),
                      Step("state.save"),
                      Step("save_geometry_state"),
                      Step("state['geometry_state'] = gs") >>]

\* Variant of accept_and_save: _closed is not set.
accept_and_save_open(s, q) ==
    LET gs == save_geometry_state(q)
        s1 == SetItem(s, "geometry_state", gs)
    IN  [closed |-> FALSE,
         state |-> s1,
         disk |-> save(s1),
         steps |-> << Step("QMainWindow.closeEvent"),
                      Step("save_geometry_state"),
                      Step("state['geometry_state'] = gs"),
                      Step("state.save") >>]

\* GUI.closeEvent(e) once no listener vetoed: the rest of the method.
accept_and_save(s, q) ==
    LET gs == save_geometry_state(q)
        s1 == SetItem(s, "geometry_state", gs)
    IN  [closed |-> TRUE,
         state |-> s1,
         disk |-> save(s1),
         steps |-> << Step("QMainWindow.closeEvent"),
                      Step("_closed = True"),
                      Step("save_geometry_state"),
                      Step("state['geometry_state'] = gs"),
                      Step("state.save") >>]

\* GUI.closeEvent(e); rets is what the 'close' listeners return this time.
\* An event that is not ignored is accepted: the toolkit then hides the
\* window, after closeEvent has returned.
closeEvent(rets) ==
    IF _closed
    THEN \* return
         /\ trace' = <<Step("return")>>
         /\ qt' = [qt EXCEPT !.visible = FALSE]
         /\ UNCHANGED <<_views, _view_class_indices, _closed, name, dock_widget,
                        docks, callbacks, state, disk, handed, removed, n_close_view,
                        vetoed, n_saves,
                   _lock_status, _status_bar>>
    ELSE LET st == emit(callbacks, "close", GUI, "", rets,
                        Running(_views, qt, <<Step("_wait")>>))
         IN  IF FalseIn(st.res)
             THEN \* e.ignore(); return
                  /\ trace' = Append(st.trace, Step("e.ignore"))
                  /\ qt' = st.qt
                  /\ vetoed' = TRUE
                  /\ UNCHANGED <<_views, _view_class_indices, _closed, name,
                                 dock_widget, docks, callbacks, state, disk,
                                 handed, removed, n_close_view, n_saves,
                   _lock_status, _status_bar>>
             ELSE LET r == accept_and_save(state, st.qt)
                  IN  /\ trace' = st.trace \o r.steps
                      /\ _closed' = r.closed
                      /\ state' = r.state
                      /\ disk' = r.disk
                      /\ n_saves' = n_saves + 1
                      /\ qt' = [st.qt EXCEPT !.visible = FALSE]
                      /\ UNCHANGED <<_views, _view_class_indices, name,
                                     dock_widget, docks, callbacks, handed,
                                     removed, n_close_view, vetoed, _lock_status,
                                     _status_bar>>

\* Variant of show: the native show comes before the 'show' event.
show_native_first ==
    LET st == emit(callbacks, "show", GUI, "", <<>>,
                   Running(_views, qt, <<Step("QMainWindow.show")>>))
    IN  /\ trace' = st.trace
        /\ qt' = [st.qt EXCEPT !.visible = TRUE]
        /\ UNCHANGED <<_views, _view_class_indices, _closed, name, dock_widget,
                       docks, callbacks, state, disk, handed, removed, n_close_view,
                       vetoed, n_saves, _lock_status, _status_bar>>

\* GUI.show()
show ==
    LET st == emit(callbacks, "show", GUI, "", <<>>, Running(_views, qt, <<>>))
    IN  /\ trace' = Append(st.trace, Step("QMainWindow.show"))
        /\ qt' = [st.qt EXCEPT !.visible = TRUE]
        /\ UNCHANGED <<_views, _view_class_indices, _closed, name, dock_widget,
                       docks, callbacks, state, disk, handed, removed, n_close_view,
                        vetoed, n_saves,
                   _lock_status, _status_bar>>

\* The application subscribes a listener: @connect(sender=...) def on_<event>
connect_listener(event, sender) ==
    /\ callbacks' = connect(callbacks, Callback(event, sender, "user", ""))
    /\ UNCHANGED <<_views, _view_class_indices, _closed, name, dock_widget,
                   docks, state, disk, qt, trace, handed, removed,
                   n_close_view, vetoed, n_saves,
                   _lock_status, _status_bar>>

\* The user moves or resizes the window or drags a dock: the blobs that
\* saveGeometry() and saveState() return change.
user_layout(g, s) ==
    /\ qt.visible
    /\ <<g, s>> # <<qt.geometry, qt.state>>
    /\ qt' = [qt EXCEPT !.geometry = g, !.state = s]
    /\ trace' = <<>>
    /\ UNCHANGED <<_views, _view_class_indices, _closed, name, dock_widget,
                   docks, callbacks, state, disk, handed, removed, n_close_view,
                        vetoed, n_saves,
                   _lock_status, _status_bar>>

\* GUI.status_message (getter): str(self._status_bar.currentMessage())
status_message(lock, bar) == bar

\* Variant of status_message_setter: the lock is not looked at.
status_message_setter_unlocked(lock, bar, value) == str(value)

\* GUI.status_message (setter): the message shown after the assignment
status_message_setter(lock, bar, value) ==
    IF lock THEN bar ELSE str(value)

\* The attributes of the window that the status bar methods leave alone.
window_vars ==
    <<_views, _view_class_indices, _closed, name, dock_widget, docks,
      callbacks, state, disk, qt, handed, removed, n_close_view, vetoed,
      n_saves>>

\* x = gui.status_message
get_status_message ==
    /\ trace' = <<Entry("status_message", "", GUI, "", 0,
                        status_message(_lock_status, _status_bar))>>
    /\ UNCHANGED <<window_vars, _lock_status, _status_bar>>

\* gui.status_message = value
set_status_message(value) ==
    /\ _status_bar' = status_message_setter(_lock_status, _status_bar, value)
    /\ trace' = <<Entry("status_message = value", "", GUI, "", 0, str(value))>>
    /\ UNCHANGED <<window_vars, _lock_status>>

\* GUI.lock_status()
lock_status ==
    /\ _lock_status' = TRUE
    /\ trace' = <<Step("lock_status")>>
    /\ UNCHANGED <<window_vars, _status_bar>>

\* GUI.unlock_status()
unlock_status ==
    /\ _lock_status' = FALSE
    /\ trace' = <<Step("unlock_status")>>
    /\ UNCHANGED <<window_vars, _status_bar>>

\* The attributes of the window that the methods of the state object leave
\* alone.
gui_vars ==
    <<_views, _view_class_indices, _closed, name, dock_widget, docks,
      callbacks, qt, handed, removed, n_close_view, vetoed, n_saves,
      _lock_status, _status_bar>>

\* gui.state.update_view_state(view, settings, gui), view.name = nm
GUIState_update_view_state(nm, settings) ==
    /\ state' = update_view_state(state, nm, settings)
    /\ trace' = <<Entry("update_view_state", "", GUI, nm, 0, "")>>
    /\ UNCHANGED <<gui_vars, disk>>

\* gui.state.get_view_state(view, gui), view.name = nm
GUIState_get_view_state(nm) ==
    LET r == get_view_state(state, nm)
    IN  /\ state' = r.state
        /\ trace' = <<Entry("get_view_state", "", GUI, nm, 0, r.ret)>>
        /\ UNCHANGED <<gui_vars, disk>>

\* gui.state.save()
GUIState_save ==
    /\ disk' = save(state)
    /\ trace' = <<Step("GUIState.save")>>
    /\ UNCHANGED <<gui_vars, state>>

\* GUIState(name, config_dir): a state object is built anew on the same
\* name and directory, as the next session does.
GUIState_new ==
    /\ state' = GUIState_init(disk)
    /\ trace' = <<Step("GUIState.__init__")>>
    /\ UNCHANGED <<gui_vars, disk>>

\* The application can subscribe one more listener.
CanConnect == Cardinality(UserListeners(callbacks)) < MaxListeners

\* Views added and dock widgets closed.
NextViews ==
    \/ \E view \in Views : CanAdd(view, MaxDocks) /\ add_view(view)
    \/ \E d \in 1..Len(docks) : DockWidget_closeEvent(d)

\* Views added and dock widgets closed, with listeners of the application.
NextEvents ==
    \/ \E view \in Views : CanAdd(view, MaxEventDocks) /\ add_view(view)
    \/ \E d \in 1..Len(docks) : DockWidget_closeEvent(d)
    \/ CanConnect /\ connect_listener("close_view", GUI)
    \/ \E d \in 1..Len(docks) :
           CanConnect /\ connect_listener("close_dock_widget", d)

\* The window shown, rearranged and closed.
NextWindow ==
    \/ \E rets \in [CloseListeners(callbacks) -> RetVals] : closeEvent(rets)
    \/ show
    \/ \E event \in {"close", "show"} :
           CanConnect /\ connect_listener(event, GUI)
    \/ \E g \in Blobs, s \in Blobs : user_layout(g, s)

\* The status bar read, written, locked and unlocked.
NextStatus ==
    \/ get_status_message
    \/ \E value \in StatusValues : set_status_message(value)
    \/ lock_status
    \/ unlock_status

\* Views created by create_views, added by add_view, and dock widgets
\* closed.
NextCreate ==
    \/ \E cls \in Classes, n \in Counts, actions \in BOOLEAN :
           CanCreate(cls, n, MaxCreateDocks) /\ create_views(cls, n, actions)
    \/ \E view \in Views : CanAdd(view, MaxCreateDocks) /\ add_view(view)
    \/ \E d \in 1..Len(docks) : DockWidget_closeEvent(d)

\* The life of the window: views added and removed, the window shown and
\* closed, with one 'close' listener of the application.
NextLifecycle ==
    \/ \E view \in Views : CanAdd(view, MaxEventDocks) /\ add_view(view)
    \/ \E d \in 1..Len(docks) : DockWidget_closeEvent(d)
    \/ show
    \/ \E rets \in [CloseListeners(callbacks) -> RetVals] : closeEvent(rets)
    \/ CloseListeners(callbacks) = {} /\ connect_listener("close", GUI)

\* The state object updated, read, saved and built anew.
NextState ==
    \/ \E nm \in ViewNames, settings \in Settings :
           GUIState_update_view_state(nm, settings)
    \/ \E nm \in ViewNames : GUIState_get_view_state(nm)
    \/ GUIState_save
    \/ GUIState_new

\* The whole program.  TLC explores it in parts: the operations of
\* NextWindow read and write nothing the operations on views read or write,
\* except the callback registry, where they look at different events; the
\* status bar and the view settings of the state object are read and
\* written by their own methods only.
Next ==
    \/ NextViews \/ NextEvents \/ NextCreate \/ NextWindow \/ NextLifecycle
    \/ NextStatus \/ NextState

Spec == Init /\ [][Next]_vars

\* The operations on views never read the state object or state.json: they
\* are explored from the window built without a state.json.
InitNoFile == Init /\ disk = NoFile

SpecViews == InitNoFile /\ [][NextViews]_vars

SpecEvents == InitNoFile /\ [][NextEvents]_vars

SpecWindow == Init /\ [][NextWindow]_vars

SpecCreate == InitNoFile /\ [][NextCreate]_vars

SpecLifecycle == InitNoFile /\ [][NextLifecycle]_vars

SpecStatus == Init /\ [][NextStatus]_vars

\* The state object is explored from the window built on the state.json of
\* an earlier session, which holds a geometry state.
InitOldFile == Init /\ disk = OldFile

SpecState == InitOldFile /\ [][NextState]_vars

\* ------------------------------------------------------------------------
\* Properties of view names and counts (SpecViews)
\* ------------------------------------------------------------------------

\* The view a pair of handed was made for, and its name.
NameOf(p) == p[1]
ViewOf(p) == p[2]
IsBare(nm) == Len(nm) = 1

\* C1 as stated: a display name add_view has handed out to a view is never
\* handed out again to a different view, even after the first was removed.
C1_NameNeverReused ==
    \A p \in handed, q \in handed : NameOf(p) = NameOf(q) => ViewOf(p) = ViewOf(q)

\* C1 amended: an indexed display name "Foo (k)" add_view has handed out to
\* a view is never handed out again to a different view, even after the
\* first view was removed; only the bare class name "Foo" is handed out
\* again, to a view added while no view of its class is tracked.
C1_IndexedNameNeverReused ==
    \A p \in handed, q \in handed :
        NameOf(p) = NameOf(q) /\ ViewOf(p) # ViewOf(q) => IsBare(NameOf(p))

\* An indexed name was handed out, its view was removed, and a later view
\* of the class got a larger index; the bare name went to two views.
C1_Witness ==
    /\ \E p \in handed, q \in handed :
          /\ ~IsBare(NameOf(p)) /\ ~IsBare(NameOf(q))
          /\ ~In(ViewOf(p), _views) /\ In(ViewOf(q), _views)
          /\ name[ViewOf(q)] = NameOf(q)
          /\ NameOf(p)[1] = NameOf(q)[1] /\ NameOf(p)[2] < NameOf(q)[2]
    /\ \E p \in handed, q \in handed :
          IsBare(NameOf(p)) /\ NameOf(p) = NameOf(q) /\ ViewOf(p) # ViewOf(q)

\* C2: the views in the tracked list have pairwise distinct display names.
C2_TrackedNamesDistinct ==
    \A i \in 1..Len(_views), j \in 1..Len(_views) :
        i # j => name[_views[i]] # name[_views[j]]

\* Three views are tracked after a view was removed and a view of its class
\* was added again.
C2_Witness ==
    /\ removed
    /\ Len(_views) >= 3
    /\ \E c \in Classes : _view_class_indices[c] > Len(list_views(_views, c))
                          /\ Len(list_views(_views, c)) >= 2

\* C3: views of one class added to a fresh window with no removal are named
\* "Foo", "Foo (1)", "Foo (2)", ... in the order they were added.
C3_NamesWithoutRemoval ==
    ~removed =>
        \A c \in Classes :
            LET views == list_views(_views, c)
            IN  \A k \in 1..Len(views) :
                    name[views[k]] = IF k = 1 THEN <<ClassName[c]>>
                                     ELSE <<ClassName[c], k - 1>>

\* Three views of one class were added and none was removed.
C3_Witness ==
    /\ ~removed
    /\ \E c \in Classes :
          LET views == list_views(_views, c)
          IN  /\ Len(views) = 3
              /\ name[views[3]] = <<ClassName[c], 2>>

IsDockClose(d) ==
    /\ callbacks' = callbacks
    /\ trace' # <<>>
    /\ trace'[1] = Entry("emit", "close_dock_widget", d, "", 0, "")

\* The positions of trace tr where event ev is emitted for sender.
Emits(tr, ev, sender) ==
    {i \in 1..Len(tr) : tr[i].op = "emit" /\ tr[i].ev = ev /\ tr[i].sender = sender}

\* The positions of trace tr where the application's listener cb is called.
Calls(tr, cb) == {i \in 1..Len(tr) : tr[i].op = "call" /\ tr[i].cb = cb}

\* C8: closing the dock widget of a tracked view removes exactly that view
\* from the tracked list, the others keeping their order, and emits exactly
\* one 'close_view' event, carrying (window, that view), after the dock
\* widget's own 'close_dock_widget' event was emitted.
C8_CloseRemovesExactlyThatView ==
    [][\A d \in 1..Len(docks) :
          (IsDockClose(d) /\ In(docks[d].view, _views)) =>
              LET view == docks[d].view
                  cv == Emits(trace', "close_view", GUI)
              IN  /\ _views' = SelectSeq(_views, LAMBDA w : w # view)
                  /\ Cardinality(cv) = 1
                  /\ \A i \in cv :
                        /\ trace'[i].view = view
                        /\ \E j \in Emits(trace', "close_dock_widget", d) : j < i
      ]_vars

\* The dock widget of the second of three tracked views was closed: the
\* first and the third stay, and 'close_view' was emitted for the second.
C8_Witness ==
    /\ _views = <<"a1", "a3">>
    /\ name["a2"] = <<"A", 1>>
    /\ Len(trace) >= 2
    /\ trace[1].op = "emit" /\ trace[1].ev = "close_dock_widget"
    /\ \E i \in 2..Len(trace) :
          trace[i].op = "emit" /\ trace[i].ev = "close_view" /\ trace[i].view = "a2"

\* C9: with a listener subscribed to a dock widget's 'close_dock_widget'
\* after add_view returned and a listener subscribed to the window's
\* 'close_view', closing that dock widget runs each of them once, every
\* 'close_view' listener before every 'close_dock_widget' listener.
C9_CloseViewListenerFirst ==
    [][\A d \in 1..Len(docks) :
          (IsDockClose(d) /\ In(docks[d].view, _views)) =>
              LET on_close_view ==
                      {i \in UserListeners(callbacks) :
                          callbacks[i].event = "close_view"}
                  on_close_dock ==
                      {i \in UserListeners(callbacks) :
                          /\ callbacks[i].event = "close_dock_widget"
                          /\ callbacks[i].sender = d}
              IN  /\ \A i \in on_close_view \cup on_close_dock :
                        Cardinality(Calls(trace', i)) = 1
                  /\ \A i \in on_close_view, j \in on_close_dock :
                        \A m \in Calls(trace', i), n \in Calls(trace', j) : m < n
      ]_vars

\* A dock widget was closed with both listeners subscribed: the listener of
\* 'close_view' ran, then the listener of 'close_dock_widget'.
C9_Witness ==
    \E m \in 1..Len(trace), n \in 1..Len(trace) :
        /\ m < n
        /\ trace[m].op = "call" /\ trace[m].ev = "close_view"
        /\ trace[n].op = "call" /\ trace[n].ev = "close_dock_widget"
        /\ trace[n].sender = dock_widget[trace[m].view]

\* ------------------------------------------------------------------------
\* Properties of closing the window (SpecWindow)
\* ------------------------------------------------------------------------

\* The step is a close request: GUI.closeEvent ran.  It is the operation
\* whose trace starts with the early return or with _wait.
IsCloseRequest ==
    /\ callbacks' = callbacks
    /\ trace' # <<>>
    /\ trace'[1].op \in {"return", "_wait"}

\* The positions of trace tr where a 'close' listener returns ret.
CloseReturns(tr, ret) ==
    {i \in 1..Len(tr) : tr[i].op = "call" /\ tr[i].ev = "close" /\ tr[i].ret = ret}

\* The positions of trace tr where step op was done.
Done(tr, op) == {i \in 1..Len(tr) : tr[i].op = op}

\* The close request of the step was vetoed: the event is ignored and the
\* window stays as it was.
Vetoed ==
    /\ trace' # <<>>
    /\ trace'[Len(trace')].op = "e.ignore"
    /\ qt'.visible = qt.visible
    /\ _closed' = FALSE

\* C4 as stated: a close request during which a 'close' listener returns a
\* false-like value (False, None, 0, an empty container) is vetoed.
C4_FalsyVetoes ==
    [][(IsCloseRequest /\ \E r \in RetVals : PyFalsy(r) /\ CloseReturns(trace', r) # {})
           => Vetoed]_vars

\* C4 amended: a close request during which a 'close' listener returns a
\* value equal to False (False or 0) is vetoed: the event is ignored and
\* the window stays open.
C4_FalseVetoes ==
    [][(IsCloseRequest /\ \E r \in RetVals : PyEqFalse(r) /\ CloseReturns(trace', r) # {})
           => Vetoed]_vars

\* A close request on the shown window was vetoed by a listener that
\* returned 0.
C4_Witness ==
    /\ CloseReturns(trace, "0") # {}
    /\ CloseReturns(trace, "False") = {}
    /\ trace[Len(trace)].op = "e.ignore"
    /\ qt.visible
    /\ ~_closed

\* C5: a close request of the open window during which a 'close' listener
\* returns False (a value equal to False) leaves the window open and not
\* marked closed, writes no 'geometry_state' and saves nothing; a close
\* request of the still open window during which no listener does so
\* completes the close and saves the state with the current geometry.
C5_VetoThenClose ==
    [][(IsCloseRequest /\ ~_closed) =>
              IF \E r \in RetVals : PyEqFalse(r) /\ CloseReturns(trace', r) # {}
              THEN /\ qt'.visible = qt.visible
                   /\ _closed' = FALSE
                   /\ state' = state
                   /\ disk' = disk
                   /\ n_saves' = n_saves
              ELSE /\ qt'.visible = FALSE
                   /\ _closed' = TRUE
                   /\ "geometry_state" \in DOMAIN state'
                   /\ state'["geometry_state"] =
                          [geometry |-> qt.geometry, state |-> qt.state]
                   /\ disk'.exists
                   /\ "geometry_state" \in DOMAIN disk'.data
                   /\ _load_json(disk'.data)["geometry_state"] =
                          state'["geometry_state"]
                   /\ n_saves' = n_saves + 1
      ]_vars

\* A close request was vetoed and a later one completed and saved.
C5_Witness ==
    /\ vetoed
    /\ _closed
    /\ n_saves = 1
    /\ Done(trace, "state.save") # {}
    /\ disk.exists
    /\ ~qt.visible

\* The order of the steps of a close request that is not vetoed.
InOrder(tr, ops) ==
    /\ \A k \in 1..Len(ops) : Cardinality(Done(tr, ops[k])) = 1
    /\ \A k \in 1..(Len(ops) - 1) :
          \A i \in Done(tr, ops[k]), j \in Done(tr, ops[k + 1]) : i < j

\* C6 as stated: in a close that is not vetoed the geometry is captured,
\* stored under 'geometry_state', the state is persisted, and only then
\* the native close is performed.
C6_NativeCloseLast ==
    Done(trace, "QMainWindow.closeEvent") # {} =>
        InOrder(trace, << "save_geometry_state",
                          "state['geometry_state'] = gs",
                          "state.save",
                          "QMainWindow.closeEvent" >>)

\* C6 amended: in a close that is not vetoed the native close handler is
\* called first and the window is marked closed; then the current geometry
\* is captured, stored under 'geometry_state' in the state object, and the
\* state, with that entry, is persisted to disk.
C6_NativeCloseFirst ==
    Done(trace, "QMainWindow.closeEvent") # {} =>
        /\ InOrder(trace, << "QMainWindow.closeEvent",
                             "_closed = True",
                             "save_geometry_state",
                             "state['geometry_state'] = gs",
                             "state.save" >>)
        /\ \A i \in Emits(trace, "close", GUI), j \in Done(trace, "QMainWindow.closeEvent") :
              i < j
        /\ state["geometry_state"] = [geometry |-> qt.geometry, state |-> qt.state]
        /\ disk.exists
        /\ _load_json(disk.data) =
               [k \in {"geometry_state"} |-> state["geometry_state"]]

\* The window was rearranged and then closed: the new geometry is on disk.
C6_Witness ==
    /\ Done(trace, "QMainWindow.closeEvent") # {}
    /\ Done(trace, "state.save") # {}
    /\ disk.exists
    /\ _load_json(disk.data)["geometry_state"] = [geometry |-> 2, state |-> 1]

\* C7: once a close that was not vetoed has completed, a further close
\* request emits no 'close' event, captures no geometry and does not save
\* the state again: the state is saved once per window.
C7_CloseIdempotent ==
    [][/\ n_saves' <= 1
       /\ _closed' = (n_saves' = 1)
       /\ (IsCloseRequest /\ _closed) =>
              /\ Emits(trace', "close", GUI) = {}
              /\ Done(trace', "save_geometry_state") = {}
              /\ Done(trace', "state.save") = {}
              /\ _closed'
              /\ n_saves' = n_saves
              /\ state' = state
              /\ disk' = disk
      ]_vars

\* A close request was made after the window had been closed and saved.
C7_Witness ==
    /\ _closed
    /\ n_saves = 1
    /\ trace = <<Step("return")>>
    /\ disk.exists

\* ------------------------------------------------------------------------
\* Properties of list_views and get_view (SpecViews)
\* ------------------------------------------------------------------------

\* The display name nm starts with the class name x.
StartsWith(nm, x) == nm # NoName /\ nm[1] = x

\* C11 as stated: list_views(x) is the list, in insertion order, of the
\* tracked views whose class is x or whose display name starts with the
\* name x, empty when nothing matches; get_view(x, index) is the index-th
\* of these, None when there is none.
C11_ListByClassOrName ==
    \A x \in Queries :
        LET matching == SelectSeq(_views, LAMBDA v :
                            ClassOf[v] = x \/ StartsWith(name[v], x))
        IN  /\ list_views(_views, x) = matching
            /\ \A index \in 0..Len(_views) :
                  get_view(_views, x, index) =
                      IF index < Len(matching) THEN matching[index + 1] ELSE None

\* ------------------------------------------------------------------------
\* Properties of the status bar (SpecStatus)
\* ------------------------------------------------------------------------

\* C12: a status message set while the status bar is locked leaves the
\* shown message unchanged, one set while it is unlocked makes the shown
\* message the text of the set value, and reading the message returns the
\* shown message whatever the lock flag is; setting and reading leave the
\* lock flag alone.
C12_StatusLock ==
    [][/\ \A value \in StatusValues :
             set_status_message(value) =>
                 /\ _status_bar' = IF _lock_status THEN _status_bar
                                   ELSE str(value)
                 /\ _lock_status' = _lock_status
       /\ get_status_message =>
             /\ trace'[1].ret = _status_bar
             /\ _status_bar' = _status_bar
             /\ _lock_status' = _lock_status
       /\ (lock_status \/ unlock_status) => _status_bar' = _status_bar
      ]_vars

\* 'hello' was set, the status bar was locked, and 'bonjour' was set: the
\* status bar still shows 'hello'.
C12_Witness ==
    /\ _lock_status
    /\ _status_bar = "hello"
    /\ trace = <<Entry("status_message = value", "", GUI, "", 0, "bonjour")>>

\* ------------------------------------------------------------------------
\* Properties of showing the window (SpecWindow)
\* ------------------------------------------------------------------------

\* The step is a call of show(): the 'show' event was emitted or the native
\* show was performed.
IsShow ==
    /\ callbacks' = callbacks
    /\ Emits(trace', "show", GUI) # {} \/ Done(trace', "QMainWindow.show") # {}

\* C13: a call of show() emits the 'show' event exactly once and runs each
\* of its listeners once and to completion, the built-in one that restores
\* the geometry stored under 'geometry_state' included, before the native
\* show is performed, which is the last step; no other event is emitted.
C13_ShowEmitsThenShows ==
    [][IsShow =>
          LET native == Done(trace', "QMainWindow.show")
              on_show_user == {i \in UserListeners(callbacks) :
                                  callbacks[i].event = "show"}
          IN  /\ Cardinality(Emits(trace', "show", GUI)) = 1
              /\ trace'[1].op = "emit"
              /\ Cardinality(Done(trace', "emit")) = 1
              /\ native = {Len(trace')}
              /\ Cardinality(Done(trace', "restore_geometry_state")) = 1
              /\ \A i \in on_show_user : Cardinality(Calls(trace', i)) = 1
              /\ \A i \in 1..Len(trace') :
                    trace'[i].op = "call" => trace'[i].cb \in on_show_user
              /\ \A i \in Done(trace', "restore_geometry_state")
                          \cup Done(trace', "call"), j \in native : i < j
              /\ IF "geometry_state" \in DOMAIN state
                 THEN /\ qt'.geometry = state["geometry_state"].geometry
                      /\ qt'.state = state["geometry_state"].state
                 ELSE qt'.geometry = qt.geometry /\ qt'.state = qt.state
              /\ qt'.visible
              /\ state' = state
      ]_vars

\* The window built on the state.json of an earlier session was shown with
\* a 'show' listener of the application subscribed: the stored geometry was
\* restored, the listener ran, and the native show came last.
C13_Witness ==
    /\ n_saves = 0
    /\ "geometry_state" \in DOMAIN state
    /\ qt = [geometry |-> 2, state |-> 2, visible |-> TRUE]
    /\ Len(trace) = 4
    /\ trace[1] = Entry("emit", "show", GUI, "", 0, "")
    /\ trace[2].op = "restore_geometry_state"
    /\ trace[3].op = "call" /\ trace[3].ev = "show"
    /\ trace[4].op = "QMainWindow.show"

\* ------------------------------------------------------------------------
\* Properties of the state object (SpecState)
\* ------------------------------------------------------------------------

\* The step is a call of GUIState.save().
IsSave == trace' = <<Step("GUIState.save")>>

\* The keys of the state object that are not written to state.json.
Bookkeeping == {"name", "config_dir"}

C15_ViewStateKeyedByName ==
    [][/\ \A nm \in ViewNames, settings \in Settings :
             GUIState_update_view_state(nm, settings) =>
                 LET old == IF nm \in DOMAIN state THEN state[nm] ELSE <<>>
                 IN  /\ DOMAIN state' = (DOMAIN state) \cup {nm}
                     /\ \A m \in (DOMAIN state) \ {nm} : state'[m] = state[m]
                     /\ DOMAIN state'[nm] = (DOMAIN old) \cup (DOMAIN settings)
                     /\ \A k \in DOMAIN settings : state'[nm][k] = settings[k]
                     /\ \A k \in (DOMAIN old) \ (DOMAIN settings) :
                           state'[nm][k] = old[k]
       /\ \A nm \in ViewNames :
             GUIState_get_view_state(nm) =>
                 /\ state' = state
                 /\ trace'[1].ret = IF nm \in DOMAIN state THEN state[nm]
                                    ELSE <<>>
      ]_vars

\* As in test_gui_state_view: 'MyView0' has settings, 'MyView' and
\* 'MyView1' have none, and get_view_state for 'MyView' returned an empty
\* container.
C15_Witness ==
    /\ trace = <<Entry("get_view_state", "", GUI, "MyView", 0, <<>>)>>
    /\ "MyView0" \in DOMAIN state
    /\ state["MyView0"] = [k \in {"hello"} |-> "world"]
    /\ "MyView" \notin DOMAIN state
    /\ "MyView1" \notin DOMAIN state

\* ------------------------------------------------------------------------
\* Properties of add_view (SpecViews)
\* ------------------------------------------------------------------------

\* The step is a call of add_view that failed its assertion.
IsAddViewRejected == trace' = <<Step("AssertionError")>>

\* The step is a call of add_view(view) that got past its assertion: a
\* dock widget was created for view.
IsAddView(view) ==
    /\ Len(docks') = Len(docks) + 1
    /\ trace' # <<>>
    /\ trace'[1].op = "_create_dock_widget"
    /\ trace'[1].view = view

\* C16: add_view called with a view that is in the tracked list is rejected
\* by the assertion and has no effect: a call of add_view gets past the
\* assertion only for a view that is not tracked, and a call that fails it
\* leaves the tracked list, the index counters and the names unchanged,
\* creates no dock widget, subscribes nothing and emits no 'add_view'.
C16_AddTrackedRejected ==
    [][/\ \A view \in Views : IsAddView(view) => ~In(view, _views)
       /\ IsAddViewRejected =>
             /\ _views' = _views
             /\ _view_class_indices' = _view_class_indices
             /\ name' = name
             /\ dock_widget' = dock_widget
             /\ docks' = docks
             /\ callbacks' = callbacks
             /\ handed' = handed
             /\ Emits(trace', "add_view", GUI) = {}
      ]_vars

\* add_view was called with one of two tracked views and was rejected.
C16_Witness ==
    /\ trace = <<Step("AssertionError")>>
    /\ _views = <<"a1", "a2">>
    /\ Len(docks) = 2
    /\ _view_class_indices["ClsA"] = 2

\* The dock widgets that refer to view (dock_widget.view).
DocksOf(view) == {d \in 1..Len(docks) : docks[d].view = view}

\* C17 as stated: every view in the tracked list has exactly one dock
\* widget: exactly one existing dock widget refers to it, and that one is
\* the dock widget the view refers to.
C17_OneDockPerView ==
    \A i \in 1..Len(_views) :
        DocksOf(_views[i]) = {dock_widget[_views[i]]}

\* ------------------------------------------------------------------------
\* Properties of the life of the window (SpecLifecycle)
\* ------------------------------------------------------------------------

\* The step emits one of the events 'show', 'add_view', 'close'.
EmitsLifeEvent ==
    \E ev \in {"show", "add_view", "close"} : Emits(trace', ev, GUI) # {}

\* C18 as stated: once a close that was not vetoed has completed, no later
\* show(), add_view or close request emits a 'show', 'add_view' or 'close'
\* event or changes the tracked view list.
C18_ClosedIsTerminal ==
    [][(_closed /\ (IsShow \/ IsCloseRequest \/ \E view \in Views : IsAddView(view)))
           => ~EmitsLifeEvent /\ _views' = _views]_vars

\* C18 amended: a close request of the open window marks it closed unless
\* it is vetoed, and the closed mark is never taken back; a close request
\* of the closed window emits no 'close' event and changes neither the
\* tracked list nor the state.  show() and add_view do not look at the
\* mark: on the closed window show() still emits 'show' and shows the
\* window, and add_view still appends the view and emits 'add_view'.
C18_ClosedStopsOnlyClose ==
    [][/\ _closed => _closed'
       /\ (IsCloseRequest /\ ~_closed) =>
             (_closed' <=> Done(trace', "e.ignore") = {})
       /\ (IsCloseRequest /\ _closed) =>
             /\ Emits(trace', "close", GUI) = {}
             /\ _views' = _views
             /\ state' = state
             /\ disk' = disk
       /\ (IsShow /\ _closed) =>
             /\ Cardinality(Emits(trace', "show", GUI)) = 1
             /\ qt'.visible
       /\ \A view \in Views :
             (IsAddView(view) /\ _closed) =>
                 /\ _views' = Append(_views, view)
                 /\ Cardinality(Emits(trace', "add_view", GUI)) = 1
      ]_vars

\* A close request was vetoed, a later one completed, and then the window
\* was shown again and a view was added to it.
C18_Witness ==
    /\ vetoed
    /\ _closed
    /\ n_saves = 1
    /\ qt.visible
    /\ Len(_views) >= 1
    /\ Emits(trace, "add_view", GUI) # {}
    /\ dock_widget[_views[Len(_views)]] = Len(docks)

\* ------------------------------------------------------------------------
\* Properties of the index counters (SpecViews)
\* ------------------------------------------------------------------------

\* The number of views of class c added so far: every add_view that got
\* past its assertion created one dock widget.
AddedSoFar(c) == Cardinality({d \in 1..Len(docks) : ClassOf[docks[d].view] = c})

\* C19: no index counter ever decreases: an add_view of a view of class c
\* that gets past its assertion increases the counter of c by exactly 1
\* and leaves the other counters unchanged, and closing a dock widget
\* leaves every counter unchanged; a view added while another view of its
\* class is tracked is named with the number of views of the class added
\* before it.
C19_CounterNeverDecreases ==
    [][/\ \A c \in Classes : _view_class_indices'[c] >= _view_class_indices[c]
       /\ \A view \in Views :
             IsAddView(view) =>
                 LET c == ClassOf[view]
                 IN  /\ _view_class_indices'[c] = _view_class_indices[c] + 1
                     /\ \A c2 \in Classes \ {c} :
                           _view_class_indices'[c2] = _view_class_indices[c2]
                     /\ list_views(_views, c) # <<>> =>
                           name'[view] = <<ClassName[c], AddedSoFar(c)>>
       /\ \A d \in 1..Len(docks) :
             IsDockClose(d) => _view_class_indices' = _view_class_indices
       /\ IsAddViewRejected => _view_class_indices' = _view_class_indices
      ]_vars

\* Three views of a class were added and the second was removed before the
\* third was added: the tracked names are 'A' and 'A (2)', and no tracked
\* view is named 'A (1)'.
C19_Witness ==
    /\ removed
    /\ _view_class_indices["ClsA"] = 3
    /\ list_views(_views, "ClsA") = <<"a1", "a3">>
    /\ name["a1"] = <<"A">>
    /\ name["a3"] = <<"A", 2>>

\* ------------------------------------------------------------------------
\* Properties of create_views (SpecCreate)
\* ------------------------------------------------------------------------

\* The step is a call of create_views({cls: n}).
IsCreateViews(cls, n) ==
    /\ trace' # <<>>
    /\ trace'[1].op = "create_views"
    /\ trace'[1].ev = cls
    /\ trace'[1].cb = n

\* C20 as stated: create_views({cls: n}) with n >= 1 and a creation
\* function registered for cls appends exactly n views of class cls to the
\* tracked list, whether or not the first created view has an 'actions'
\* attribute; with n <= 0 or no creation function it adds none.
C20_CreatesExactlyN ==
    [][\A cls \in Classes, n \in Counts :
          IsCreateViews(cls, n) =>
              IF n >= 1 /\ cls \in view_creator
              THEN /\ Len(_views') = Len(_views) + n
                   /\ SubSeq(_views', 1, Len(_views)) = _views
                   /\ \A i \in (Len(_views) + 1)..Len(_views') :
                         ClassOf[_views'[i]] = cls
              ELSE _views' = _views
      ]_vars

\* ------------------------------------------------------------------------
\* Properties of closing a dock widget again (SpecViews)
\* ------------------------------------------------------------------------

\* The number of times view was added: every add_view that got past its
\* assertion created one dock widget, once the step is done.
TimesAdded(view) == Cardinality({d \in 1..Len(docks') : docks'[d].view = view})

\* C21 as stated: closing a dock widget whose view is not in the tracked
\* list (the same dock widget closed a second time) leaves the tracked list
\* unchanged and emits no 'close_view'; the number of 'close_view' events
\* emitted for a view never exceeds the number of times the view was added;
\* and a view tracked through a newer dock widget is never removed by a
\* close of its older dock widget.
C21_StaleCloseHarmless ==
    [][/\ \A d \in 1..Len(docks) :
             IsDockClose(d) =>
                 LET view == docks[d].view
                 IN  /\ ~In(view, _views) =>
                           /\ _views' = _views
                           /\ Emits(trace', "close_view", GUI) = {}
                     /\ (In(view, _views) /\ dock_widget[view] # d) =>
                           In(view, _views')
       /\ \A view \in Views : n_close_view'[view] <= TimesAdded(view)
      ]_vars

====
